---- MODULE Spec2Model ----
(***************************************************************************)
(* A model of the emotion service of AI_listener                           *)
(* (backend/app/services/emotion_service.py): the rule-based classifier    *)
(* detect_emotion_rule_based with its four signal extractors, the crisis   *)
(* response builder, the Gemini path generate_response_with_gemini and the *)
(* orchestrator generate_response; and the connection request handler      *)
(* send_connection_request of backend/app/routes/connections.py over the   *)
(* table of UserConnection rows.                                           *)
(*                                                                         *)
(* Conventions.                                                            *)
(*  - A text is a sequence of tokens (words and emoji glyphs) joined by    *)
(*    single blanks.  An emoji glyph is written by its code points,        *)
(*    "U+1F60A".                                                           *)
(*  - A regular expression of the source is a sequence of slots, each the  *)
(*    set of lower-case words that may stand at that place; it matches a   *)
(*    text when the slots match consecutive tokens (re.search).  The       *)
(*    pattern tables list those patterns of the source that match some     *)
(*    text over the vocabularies, with their words in the slots;           *)
(*    the keyword, emoji and negation tables are the source's, complete.   *)
(*  - Python floats are scaled by 100: confidence 0.9 is 90, sentiment     *)
(*    -0.85 is -85.                                                        *)
(*  - A dict is a sequence of [k, v] pairs in insertion order, which is    *)
(*    the order max(d, key=d.get) breaks ties by.                          *)
(***************************************************************************)
EXTENDS Integers, Sequences, FiniteSets, TLC

VARIABLES
  text,              \* classifier: the text it is applied to
  emotion_result,    \* classifier: the EmotionResult returned
  extracted,         \* extractors: what each of them returned for the text
  cpc,               \* classifier: "call" before, "returned" after
  model,             \* the module global: TRUE when a Gemini model is set
  error_log_writable,\* whether open("error_log.txt", ...) succeeds
  error_log,         \* the lines of error_log.txt
  pc,                \* the place of the generate_response call
  message,           \* generate_response: its text argument
  history,           \* generate_response: its history argument
  gemini_history,    \* the history handed to generate_response_with_gemini
  gemini_calls,      \* the number of chat.send_message calls of this call
  gemini_status,     \* how far generate_response_with_gemini got
  gemini_answer,     \* what kind of answer chat.send_message gave
  gemini_data,       \* the JSON object of the answer that was returned
  result,            \* what generate_response returned
  raised,            \* an exception left generate_response
  path,               \* which return statement produced result
  connections,       \* the committed UserConnection rows, in insertion order
  requests,          \* the send_connection_request calls and their places
  unique_columns     \* whether the table declares (user_id, connected_user_id) unique

(***************************************************************************)
(* Bounds of the model.                                                    *)
(***************************************************************************)
MaxLen == 3

MaxMsgLen == 2

MaxLongLen == 4

MaxHist == 11

\* Concurrent calls: the longest message of the observed call, and the most
\* lines other calls leave in error_log.txt before it is rewritten.
MaxConcMsgLen == 1

MaxLog == 2

\* Connection requests: the number of send_connection_request calls.
MaxRequests == 3

\* The users of the store, and the ids a request can name as its target:
\* those of the users and one that is no user's.
Users == { "u1", "u2", "u3" }

UserIds == Users \cup { "u0" }

RequestIds == 1..MaxRequests

Vocabulary ==
  { "not", "good", "Good", "okay", "day", "feeling", "hurt", "myself",
    "suicidal", "U+1F60A", "U+1F622" }

Texts == UNION { [1..n -> Vocabulary] : n \in 0..MaxLen }

\* The texts the extractors are applied to one by one: longer texts over
\* fewer words, with two keywords of one emotion, an angry and a happy
\* emoji.
LongVocabulary ==
  { "not", "feeling", "good", "day", "anxious", "worried", "U+1F620",
    "U+1F60A" }

LongTexts == UNION { [1..n -> LongVocabulary] : n \in 0..MaxLongLen }

\* The messages handed to generate_response.
MsgVocabulary ==
  { "not", "good", "day", "hurt", "myself", "suicidal", "U+1F60A", "U+1F64F" }

Messages == UNION { [1..n -> MsgVocabulary] : n \in 0..MaxMsgLen }

\* The histories handed to generate_response: n turns, the user's and the
\* AI's in turn, as send_message builds them.
HistoryOf(n) ==
  [i \in 1..n |-> [content |-> i, is_ai_response |-> (i % 2 = 0)]]

Histories == { HistoryOf(n) : n \in 0..MaxHist }

(***************************************************************************)
(* Pattern registry.                                                       *)
(***************************************************************************)
CRISIS_PATTERNS ==
  << << {"suicidal"} >>,               \* \bsuicid
     << {"hurt"}, {"myself"} >>        \* \bhurt(ing)?\s*(my)?self
  >>

EMOTION_PHRASES ==
  <<
    [group |-> "heartbreak", patterns |-> << >>],
    [group |-> "grief",      patterns |-> << >>],
    [group |-> "loneliness", patterns |-> << >>],
    [group |-> "depression", patterns |-> <<
        \* \bnot\s*feeling\s*(good|well|okay|ok|fine|great|right)
        << {"not"}, {"feeling"}, {"good", "okay"} >> >>],
    [group |-> "anxiety",    patterns |-> <<
        \* \bfeel(ing)?\s*(anxious|nervous|panick|restless|on\s*edge)
        << {"feeling"}, {"anxious"} >> >>],
    [group |-> "anger",      patterns |-> << >>],
    [group |-> "positive",   patterns |-> <<
        \* \bfeeling\s*(good|great|better|amazing|...)
        << {"feeling"}, {"good"} >>,
        \* \bgood\s*day
        << {"good"}, {"day"} >> >>]
  >>

PHRASE_TO_EMOTION ==
  [ heartbreak |-> "heartbreak", grief |-> "grief", loneliness |-> "sad",
    depression |-> "depressed", anxiety |-> "anxious", anger |-> "angry",
    positive |-> "happy" ]

EMOJI_EMOTIONS ==
  <<
    [emotion |-> "sad", emojis |-> <<
        "U+1F622", "U+1F62D", "U+1F63F", "U+1F61E", "U+1F614", "U+1F625",
        "U+1F97A", "U+1F494", "U+1F629", "U+1F62A", "U+1F972" >>],
    [emotion |-> "angry", emojis |-> <<
        "U+1F620", "U+1F621", "U+1F92C", "U+1F4A2", "U+1F47F", "U+1F624" >>],
    [emotion |-> "anxious", emojis |-> <<
        "U+1F630", "U+1F628", "U+1F631", "U+1F62C", "U+1FAE3", "U+1F633" >>],
    [emotion |-> "happy", emojis |-> <<
        "U+1F60A", "U+1F603", "U+1F604", "U+1F970", "U+1F601", "U+1F389",
        "U+2764U+FE0F", "U+1F496", "U+2728", "U+1F973", "U+1F60D", "U+1F917" >>],
    [emotion |-> "tired", emojis |-> <<
        "U+1F634", "U+1F62A", "U+1F971", "U+1F4A4" >>],
    [emotion |-> "confused", emojis |-> <<
        "U+1F615", "U+1F61F", "U+1F914", "U+1F635", "U+1FAE4" >>],
    [emotion |-> "grateful", emojis |-> <<
        "U+1F64F", "U+1F49B", "U+1F91D", "U+1F495" >>]
  >>

KEYWORD_EMOTIONS ==
  <<
    [emotion |-> "sad", keywords |-> <<
        "sad", "unhappy", "depressed", "down", "miserable", "hopeless",
        "lonely", "heartbroken", "grief", "crying", "tears", "lost", "empty",
        "numb", "broken", "hurt", "pain", "suffering", "sorrow", "despair",
        "melancholy", "gloomy", "blue", "upset", "devastated", "terrible",
        "awful", "horrible", "worst", "ruined", "shattered", "worthless",
        "useless", "pathetic", "failure", "disappointed", "regret", "miss",
        "missing", "ache", "aching", "wounded" >>],
    [emotion |-> "anxious", keywords |-> <<
        "anxious", "worried", "nervous", "scared", "fear", "panic",
        "stressed", "overwhelmed", "terrified", "uneasy", "restless",
        "tense", "dread", "apprehensive", "insecure", "paranoid",
        "frightened", "shaking", "trembling", "uncertain", "overthinking" >>],
    [emotion |-> "angry", keywords |-> <<
        "angry", "mad", "furious", "irritated", "frustrated", "annoyed",
        "rage", "hostile", "bitter", "resentful", "outraged", "livid",
        "infuriated", "agitated", "enraged", "disgusted", "betrayed" >>],
    [emotion |-> "happy", keywords |-> <<
        "happy", "joy", "grateful", "thankful", "excited", "wonderful",
        "amazing", "great", "fantastic", "blessed", "cheerful", "delighted",
        "elated", "thrilled", "content", "pleased", "optimistic", "peaceful",
        "calm", "serene", "hopeful", "proud", "confident", "awesome", "good",
        "fine", "well", "better", "beautiful" >>],
    [emotion |-> "confused", keywords |-> <<
        "confused", "uncertain", "unsure", "stuck", "helpless", "conflicted",
        "torn", "indecisive", "puzzled", "bewildered" >>],
    [emotion |-> "tired", keywords |-> <<
        "tired", "exhausted", "drained", "burnout", "fatigued", "depleted",
        "weary", "sluggish", "lethargic" >>]
  >>

NEGATION_WORDS ==
  <<
    "not", "no", "don't", "dont", "doesn't", "doesnt", "didn't", "didnt",
    "won't", "wont", "can't", "cant", "cannot", "never", "isn't", "isnt",
    "aren't", "arent", "wasn't", "wasnt", "hardly", "barely", "neither" >>


positive_words ==
  << "good", "fine", "well", "okay", "ok", "great", "happy", "right", "better" >>

sentiment_map ==
  [ happy |-> 80, grateful |-> 90, sad |-> -70, heartbreak |-> -85,
    grief |-> -90, depressed |-> -85, anxious |-> -50, angry |-> -60,
    confused |-> -20, tired |-> -30, neutral |-> 0, crisis |-> -100 ]

(***************************************************************************)
(* Python values and helpers.                                              *)
(***************************************************************************)
None == "None"

\* No dict: nothing returned yet, or None returned.
NoResult == [none |-> TRUE]

Range(s) == { s[i] : i \in DOMAIN s }

\* str.lower() and re.IGNORECASE on one token: "Good" is the token of
\* Vocabulary that has an upper-case letter.
Lower(w) == IF w = "Good" THEN "good" ELSE w

\* The glyphs of the emoji table: the tokens that are not made of \w
\* characters.
EmojiGlyphs ==
  UNION { Range(EMOJI_EMOTIONS[i].emojis) : i \in DOMAIN EMOJI_EMOTIONS }

IsWord(w) == w \notin EmojiGlyphs

\* re.search(pattern, text, re.IGNORECASE) for a slot pattern.
Search(pattern, t) ==
  \E i \in 1..(Len(t) - Len(pattern) + 1) :
     \A j \in 1..Len(pattern) : Lower(t[i + j - 1]) \in pattern[j]

\* dict operations; a dict is a sequence of [k, v] in insertion order.
Keys(d) == { d[i].k : i \in DOMAIN d }

Get(d, key, default) ==
  IF key \in Keys(d)
  THEN d[CHOOSE i \in DOMAIN d : d[i].k = key].v
  ELSE default

\* d[key] = value: an existing key keeps its place, a new key goes last.
Put(d, key, value) ==
  IF key \in Keys(d)
  THEN [i \in DOMAIN d |-> IF d[i].k = key THEN [k |-> key, v |-> value] ELSE d[i]]
  ELSE Append(d, [k |-> key, v |-> value])

\* del d[key]
Del(d, key) == SelectSeq(d, LAMBDA e : e.k # key)

\* Mutant: the last key, in insertion order, of the largest value.
MaxKey_last(d) ==
  d[CHOOSE i \in DOMAIN d :
        /\ \A j \in DOMAIN d : d[j].v <= d[i].v
        /\ \A j \in (i + 1)..Len(d) : d[j].v < d[i].v].k

\* max(d, key=d.get): the first key, in insertion order, of the largest
\* value.
MaxKey(d) ==
  d[CHOOSE i \in DOMAIN d :
        /\ \A j \in DOMAIN d : d[j].v <= d[i].v
        /\ \A j \in 1..(i - 1) : d[j].v < d[i].v].k

(***************************************************************************)
(* Signal extractors.                                                      *)
(***************************************************************************)
_check_crisis(t) ==
  \E p \in DOMAIN CRISIS_PATTERNS : Search(CRISIS_PATTERNS[p], t)

\* text.count(emoji)
Count(t, glyph) == Cardinality({ i \in DOMAIN t : t[i] = glyph })

RECURSIVE SumCounts(_, _, _)
SumCounts(t, emojis, n) ==
  IF n = 0 THEN 0
  ELSE SumCounts(t, emojis, n - 1) + Count(t, emojis[n])

RECURSIVE EmojiScores(_, _)
EmojiScores(t, n) ==
  IF n = 0 THEN << >>
  ELSE LET scores == EmojiScores(t, n - 1)
           entry  == EMOJI_EMOTIONS[n]
           count  == SumCounts(t, entry.emojis, Len(entry.emojis))
       IN  IF count > 0
           THEN Put(scores, entry.emotion, Get(scores, entry.emotion, 0) + count)
           ELSE scores

_detect_emoji_emotion(t) ==
  LET emoji_scores == EmojiScores(t, Len(EMOJI_EMOTIONS))
  IN  IF emoji_scores # << >> THEN MaxKey(emoji_scores) ELSE None

\* The number of patterns of a phrase group that match the text.
GroupMatches(t, g) ==
  Cardinality({ p \in DOMAIN EMOTION_PHRASES[g].patterns :
                  Search(EMOTION_PHRASES[g].patterns[p], t) })

RECURSIVE PhraseMatches(_, _)
PhraseMatches(t, n) ==
  IF n = 0 THEN << >>
  ELSE LET matches == PhraseMatches(t, n - 1)
           emotion == PHRASE_TO_EMOTION[EMOTION_PHRASES[n].group]
           count   == GroupMatches(t, n)
       IN  IF count > 0
           THEN Put(matches, emotion, Get(matches, emotion, 0) + count)
           ELSE matches

\* set(tags): the groups with a matching pattern.
PhraseTags(t) ==
  { EMOTION_PHRASES[g].group :
      g \in { h \in DOMAIN EMOTION_PHRASES : GroupMatches(t, h) > 0 } }

\* list(s) of a set of strings: its elements, each once, in an order that
\* depends on the string hashes of the process.
ListsOf(s) ==
  { l \in [1..Cardinality(s) -> s] : \A e \in s : \E i \in DOMAIN l : l[i] = e }

\* Mutant: the emotion taken from the first tag of list(set(tags)).
_detect_phrase_emotion_first_tag(t, tag_list) ==
  LET matches == PhraseMatches(t, Len(EMOTION_PHRASES))
  IN  IF matches # << >>
      THEN [emotion |-> PHRASE_TO_EMOTION[tag_list[1]], tags |-> tag_list]
      ELSE [emotion |-> None, tags |-> << >>]

\* tag_list is the list that list(set(tags)) yields.
_detect_phrase_emotion(t, tag_list) ==
  LET matches == PhraseMatches(t, Len(EMOTION_PHRASES))
  IN  IF matches # << >>
      THEN [emotion |-> MaxKey(matches), tags |-> tag_list]
      ELSE [emotion |-> None, tags |-> << >>]

\* re.search(rf'\b{neg}\b\s+\w*\s*\b{pos}\b', text_lower): the negation
\* word, then the positive word next to it or after one word between.
_has_negation_before_positive(t) ==
  \E n \in DOMAIN NEGATION_WORDS, p \in DOMAIN positive_words :
    \E i \in DOMAIN t :
      /\ Lower(t[i]) = NEGATION_WORDS[n]
      /\ \/ /\ i + 1 <= Len(t)
            /\ Lower(t[i + 1]) = positive_words[p]
         \/ /\ i + 2 <= Len(t)
            /\ IsWord(t[i + 1])
            /\ Lower(t[i + 2]) = positive_words[p]

\* The number of keywords of an emotion found as whole words.
KeywordCount(t, n) ==
  Cardinality({ i \in DOMAIN KEYWORD_EMOTIONS[n].keywords :
                  \E j \in DOMAIN t : Lower(t[j]) = KEYWORD_EMOTIONS[n].keywords[i] })

RECURSIVE KeywordScores(_, _)
KeywordScores(t, n) ==
  IF n = 0 THEN << >>
  ELSE LET scores == KeywordScores(t, n - 1)
           emotion == KEYWORD_EMOTIONS[n].emotion
           count   == KeywordCount(t, n)
       IN  IF count > 0
           THEN Put(scores, emotion, Get(scores, emotion, 0) + count)
           ELSE scores

\* Mutant: the keyword scores without the negation adjustment of lines
\* 464-467.
_detect_keyword_emotion_no_negation(t) ==
  LET scores == KeywordScores(t, Len(KEYWORD_EMOTIONS))
  IN  IF scores = << >> THEN None ELSE MaxKey(scores)

\* Lines 455-470: the keyword scores, adjusted for a negated positive word;
\* the first emotion with the highest score.
_detect_keyword_emotion(t) ==
  LET scores == KeywordScores(t, Len(KEYWORD_EMOTIONS))
      adjusted ==
        IF _has_negation_before_positive(t)
        THEN LET kept == IF "happy" \in Keys(scores) THEN Del(scores, "happy") ELSE scores
             IN  Put(kept, "sad", Get(kept, "sad", 0) + 2)
        ELSE scores
  IN  IF scores = << >> THEN None
      ELSE IF adjusted = << >> THEN None
      ELSE MaxKey(adjusted)

(***************************************************************************)
(* Classifier.                                                             *)
(***************************************************************************)
EmotionResult(emotion, confidence, sentiment_score, is_crisis, context_tags) ==
  [ emotion |-> emotion, confidence |-> confidence,
    sentiment_score |-> sentiment_score, is_crisis |-> is_crisis,
    context_tags |-> context_tags ]

\* Mutant: the default of sentiment_map.get for every emotion.
SentimentOf_default(emotion) == -30

\* sentiment_map.get(emotion, -0.3)
SentimentOf(emotion) ==
  IF emotion \in DOMAIN sentiment_map THEN sentiment_map[emotion] ELSE -30

\* Mutant: the emoji candidate taken before the phrase candidate.
Combine_emoji_first(phrase_emotion, emoji_emotion, keyword_emotion, negation) ==
  IF emoji_emotion # None
  THEN [emotion |-> emoji_emotion, confidence |-> 70]
  ELSE IF phrase_emotion # None
  THEN [emotion |-> phrase_emotion, confidence |-> 90]
  ELSE IF keyword_emotion # None
  THEN [emotion |-> keyword_emotion, confidence |-> 70]
  ELSE IF negation
  THEN [emotion |-> "sad", confidence |-> 60]
  ELSE [emotion |-> "neutral", confidence |-> 30]

\* Mutant: the keyword candidate whenever an emoji and a keyword candidate
\* meet, without the negation check of line 494.
Combine_keyword_always(phrase_emotion, emoji_emotion, keyword_emotion, negation) ==
  IF phrase_emotion # None
  THEN [emotion |-> phrase_emotion, confidence |-> 90]
  ELSE IF emoji_emotion # None /\ keyword_emotion # None
  THEN [emotion |-> keyword_emotion, confidence |-> 80]
  ELSE IF emoji_emotion # None
  THEN [emotion |-> emoji_emotion, confidence |-> 70]
  ELSE IF keyword_emotion # None
  THEN [emotion |-> keyword_emotion, confidence |-> 70]
  ELSE IF negation
  THEN [emotion |-> "sad", confidence |-> 60]
  ELSE [emotion |-> "neutral", confidence |-> 30]

\* Mutant: "neutral" when nothing matched, without the negation check of
\* lines 506-508.
Combine_neutral_default(phrase_emotion, emoji_emotion, keyword_emotion, negation) ==
  IF phrase_emotion # None
  THEN [emotion |-> phrase_emotion, confidence |-> 90]
  ELSE IF emoji_emotion # None /\ keyword_emotion # None
  THEN [emotion |-> IF negation
                    THEN (IF emoji_emotion # "happy"
                          THEN emoji_emotion ELSE keyword_emotion)
                    ELSE keyword_emotion,
        confidence |-> 80]
  ELSE IF emoji_emotion # None
  THEN [emotion |-> emoji_emotion, confidence |-> 70]
  ELSE IF keyword_emotion # None
  THEN [emotion |-> keyword_emotion, confidence |-> 70]
  ELSE [emotion |-> "neutral", confidence |-> 30]

\* Lines 489-511: the choice among the candidates of the extractors;
\* negation is _has_negation_before_positive(text).
Combine(phrase_emotion, emoji_emotion, keyword_emotion, negation) ==
  IF phrase_emotion # None
  THEN [emotion |-> phrase_emotion, confidence |-> 90]
  ELSE IF emoji_emotion # None /\ keyword_emotion # None
  THEN [emotion |-> IF negation
                    THEN (IF emoji_emotion # "happy"
                          THEN emoji_emotion ELSE keyword_emotion)
                    ELSE keyword_emotion,
        confidence |-> 80]
  ELSE IF emoji_emotion # None
  THEN [emotion |-> emoji_emotion, confidence |-> 70]
  ELSE IF keyword_emotion # None
  THEN [emotion |-> keyword_emotion, confidence |-> 70]
  ELSE IF negation
  THEN [emotion |-> "sad", confidence |-> 60]
  ELSE [emotion |-> "neutral", confidence |-> 30]

\* Lines 480-524: the layers after the crisis layer.
RuleBasedLayers(t, tag_list) ==
  LET phrase   == _detect_phrase_emotion(t, tag_list)
      combined == Combine(phrase.emotion, _detect_emoji_emotion(t),
                          _detect_keyword_emotion(t),
                          _has_negation_before_positive(t))
  IN  EmotionResult(combined.emotion, combined.confidence,
                    SentimentOf(combined.emotion), FALSE, phrase.tags)

CrisisResult ==
  EmotionResult("crisis", 100, -100, TRUE, << "crisis", "safety" >>)

\* Mutant: the crisis layer checked after the phrase layer.
detect_emotion_rule_based_crisis_last(t, tag_list) ==
  IF _detect_phrase_emotion(t, tag_list).emotion # None
  THEN RuleBasedLayers(t, tag_list)
  ELSE IF _check_crisis(t) THEN CrisisResult ELSE RuleBasedLayers(t, tag_list)

detect_emotion_rule_based(t, tag_list) ==
  IF _check_crisis(t) THEN CrisisResult ELSE RuleBasedLayers(t, tag_list)

(***************************************************************************)
(* Crisis response.  A response text is the sequence of its words, the     *)
(* punctuation left out.                                                   *)
(***************************************************************************)
\* Mutant: the second response without the lifeline number.
crisis_responses_no_helpline ==
  << << "I", "hear", "you", "Please", "reach", "out", "to", "someone",
        "Call/text", "988", "Text", "HOME", "to", "741741" >>,
     << "I'm", "so", "sorry", "you're", "in", "this", "much", "pain",
        "Please", "talk", "to", "someone", "right", "now", "I'm", "here",
        "with", "you" >> >>

crisis_responses ==
  << << "I", "hear", "you", "and", "I'm", "really", "glad", "you", "told",
        "me", "this", "Please", "reach", "out", "to", "someone", "who",
        "can", "help", "right", "now", "Call/text", "988", "Suicide", "&",
        "Crisis", "Lifeline", "Text", "HOME", "to", "741741", "Crisis",
        "Text", "Line", "Call", "911", "if", "you're", "in", "immediate",
        "danger", "You", "don't", "have", "to", "face", "this", "alone" >>,
     << "I'm", "so", "sorry", "you're", "in", "this", "much", "pain",
        "Please", "talk", "to", "someone", "right", "now", "988", "Suicide",
        "&", "Crisis", "Lifeline", "Crisis", "Text", "Line", "text", "HOME",
        "to", "741741", "I'm", "here", "with", "you" >> >>

crisis_coping_tip ==
  "Please reach out to a crisis helpline right now. You deserve support. Call/text 988."

\* Mutant: the crisis flag of the crisis response left at its default.
_build_crisis_response_flag_off(t, response) ==
  [ emotion |-> "crisis", confidence |-> 100, sentiment_score |-> -100,
    response |-> response, coping_tip |-> crisis_coping_tip,
    is_crisis |-> FALSE ]

\* response is random.choice(responses).
_build_crisis_response(t, response) ==
  [ emotion |-> "crisis", confidence |-> 100, sentiment_score |-> -100,
    response |-> response, coping_tip |-> crisis_coping_tip,
    is_crisis |-> TRUE ]

(***************************************************************************)
(* The Gemini path.                                                        *)
(***************************************************************************)
valid_emotions ==
  << "happy", "sad", "anxious", "angry", "confused", "tired", "grateful",
     "neutral", "heartbreak", "grief", "depressed", "crisis" >>

\* What the generator may put in the fields of its JSON object.
GeminiEmotions == { "happy", "crisis", "bored" }

GeminiConfidences == { 90, 150 }

GeminiSentiments == { -50, -150 }

GeminiResponses ==
  { << "that", "sucks", "lol" >>,
    << "hey", "call", "988", "or", "text", "HOME", "to", "741741", "rn" >> }

GeminiTips == { "go touch grass lol" }

GeminiKeys == { "emotion", "confidence", "sentiment_score", "response", "coping_tip" }

\* The JSON objects of the generator: any subset of the keys may be absent.
GeminiObjects ==
  { [k \in keys |-> full[k]] :
      keys \in SUBSET GeminiKeys,
      full \in [ emotion : GeminiEmotions, confidence : GeminiConfidences,
                 sentiment_score : GeminiSentiments,
                 response : GeminiResponses, coping_tip : GeminiTips ] }

\* The JSON values json.loads may return: an object, or a value that is
\* not an object (a list, a string, a number).
JsonValues ==
  { [type |-> "object", fields |-> o] : o \in GeminiObjects }
    \cup { [type |-> "array"] }

\* response.text is a sequence of pieces: a JSON value, a json code fence
\* (three backticks and "json"), a plain code fence (three backticks), or
\* words that are not JSON.
FenceJson == [kind |-> "fence_json"]

Fence == [kind |-> "fence"]

Prose == [kind |-> "prose"]

Json(v) == [kind |-> "json", value |-> v]

SomeObject ==
  [ type |-> "object",
    fields |-> [ emotion |-> "happy", response |-> << "that", "sucks", "lol" >> ] ]

GeminiContents ==
  { << Json(v) >> : v \in JsonValues }
    \cup { << FenceJson, Json(SomeObject), Fence >>,
           << Prose, FenceJson, Json(SomeObject), Fence, Prose >>,
           << Fence, Json(SomeObject), Fence >>,
           << FenceJson, Json(SomeObject) >>,
           << Prose, Json(SomeObject) >>,
           << Prose >>,
           << >> }

\* What chat.send_message(prompt) and response.text do: raise (network
\* error, deadline exceeded, blocked answer) or yield a text.
GeminiOutcomes ==
  { [kind |-> "exception"] }
    \cup { [kind |-> "text", content |-> c] : c \in GeminiContents }

IsFence(piece) == piece.kind \in { "fence_json", "fence" }

\* content.split(fence)[1].split(plain fence)[0]: the pieces after the
\* first fence of that kind, up to the next fence of either kind.
AfterFence(content, kind) ==
  LET first == CHOOSE i \in DOMAIN content :
                 /\ content[i].kind = kind
                 /\ \A j \in 1..(i - 1) : content[j].kind # kind
      later == { j \in (first + 1)..Len(content) : IsFence(content[j]) }
      stop  == IF later = {} THEN Len(content) + 1
               ELSE CHOOSE j \in later : \A m \in later : j <= m
  IN  SubSeq(content, first + 1, stop - 1)

StripFences(content) ==
  IF \E i \in DOMAIN content : content[i].kind = "fence_json"
  THEN AfterFence(content, "fence_json")
  ELSE IF \E i \in DOMAIN content : content[i].kind = "fence"
  THEN AfterFence(content, "fence")
  ELSE content

\* json.loads(content): the value, when the text is one JSON value.
json_loads(content) ==
  IF Len(content) = 1 /\ content[1].kind = "json"
  THEN [ok |-> TRUE, value |-> content[1].value]
  ELSE [ok |-> FALSE]

\* data.get(key, default)
DataGet(data, key, default) ==
  IF key \in DOMAIN data THEN data[key] ELSE default

\* Mutant: the emotion of the answer taken as it is (lines 619-621 left
\* out).
GeminiReturn_unvalidated(content) ==
  LET loaded == json_loads(StripFences(content))
  IN  IF ~loaded.ok THEN NoResult
      ELSE IF loaded.value.type # "object" THEN NoResult
      ELSE
        LET data == loaded.value.fields
        IN  IF { "emotion", "response" } \ DOMAIN data # {} THEN NoResult
            ELSE [ emotion |-> data["emotion"],
                   confidence |-> DataGet(data, "confidence", 50),
                   sentiment_score |-> DataGet(data, "sentiment_score", 0),
                   response |-> data["response"],
                   coping_tip |-> DataGet(data, "coping_tip", "Take a deep breath."),
                   is_crisis |-> (data["emotion"] = "crisis") ]

\* Mutant: 0.0 as the confidence of an answer without one.
GeminiReturn_zero_confidence(content) ==
  LET loaded == json_loads(StripFences(content))
  IN  IF ~loaded.ok THEN NoResult
      ELSE IF loaded.value.type # "object" THEN NoResult
      ELSE
        LET data == loaded.value.fields
            emotion ==
              IF DataGet(data, "emotion", None) \notin Range(valid_emotions)
              THEN "neutral" ELSE data["emotion"]
        IN  IF "response" \notin DOMAIN data THEN NoResult
            ELSE [ emotion |-> emotion,
                   confidence |-> DataGet(data, "confidence", 0),
                   sentiment_score |-> DataGet(data, "sentiment_score", 0),
                   response |-> data["response"],
                   coping_tip |-> DataGet(data, "coping_tip", "Take a deep breath."),
                   is_crisis |-> (emotion = "crisis") ]

\* Mutant: the crisis flag of the generator path always off.
GeminiReturn_flag_off(content) ==
  LET loaded == json_loads(StripFences(content))
  IN  IF ~loaded.ok THEN NoResult                      \* JSONDecodeError
      ELSE IF loaded.value.type # "object" THEN NoResult \* AttributeError
      ELSE
        LET data == loaded.value.fields
            emotion ==
              IF DataGet(data, "emotion", None) \notin Range(valid_emotions)
              THEN "neutral" ELSE data["emotion"]
        IN  IF "response" \notin DOMAIN data THEN NoResult   \* KeyError
            ELSE [ emotion |-> emotion,
                   confidence |-> DataGet(data, "confidence", 50),
                   sentiment_score |-> DataGet(data, "sentiment_score", 0),
                   response |-> data["response"],
                   coping_tip |-> DataGet(data, "coping_tip", "Take a deep breath."),
                   is_crisis |-> FALSE ]

\* Lines 616-630: the dict generate_response_with_gemini returns for the
\* text of the answer, or NoResult when a line of them raises.
GeminiReturn(content) ==
  LET loaded == json_loads(StripFences(content))
  IN  IF ~loaded.ok THEN NoResult                      \* JSONDecodeError
      ELSE IF loaded.value.type # "object" THEN NoResult \* AttributeError
      ELSE
        LET data == loaded.value.fields
            emotion ==
              IF DataGet(data, "emotion", None) \notin Range(valid_emotions)
              THEN "neutral" ELSE data["emotion"]
        IN  IF "response" \notin DOMAIN data THEN NoResult   \* KeyError
            ELSE [ emotion |-> emotion,
                   confidence |-> DataGet(data, "confidence", 50),
                   sentiment_score |-> DataGet(data, "sentiment_score", 0),
                   response |-> data["response"],
                   coping_tip |-> DataGet(data, "coping_tip", "Take a deep breath."),
                   is_crisis |-> (emotion = "crisis") ]

\* The kind of an answer: what the lines 607-627 make of it.
AnswerKind(outcome) ==
  IF outcome.kind = "exception" THEN "exception"
  ELSE LET loaded == json_loads(StripFences(outcome.content))
       IN  IF ~loaded.ok THEN "not_json"
           ELSE IF loaded.value.type # "object" THEN "not_object"
           ELSE IF "response" \notin DOMAIN loaded.value.fields THEN "no_response"
           ELSE "object"

(***************************************************************************)
(* The rule-based fallback of generate_response.                           *)
(***************************************************************************)
\* CONTEXTUAL_RESPONSES (lines 250-341): for each emotion its buckets, each
\* a list of response texts; a text is given by its first eight words.
CONTEXTUAL_RESPONSES ==
  [ heartbreak |->
      [ relationship |->
          << << "Breakups", "are", "one", "of", "the", "most", "painful",
                "things" >>,
             << "I'm", "so", "sorry", "about", "your", "breakup", "When",
                "someone" >>,
             << "Losing", "someone", "you", "cared", "about", "deeply",
                "is", "genuinely" >>,
             << "I", "can", "feel", "how", "much", "pain", "you're", "in" >>,
             << "That's", "so", "hard", "When", "a", "relationship", "ends",
                "it's" >> >>,
        default |->
          << << "Heartbreak", "is", "one", "of", "the", "deepest", "kinds",
                "of" >>,
             << "I", "hear", "you", "and", "I'm", "sorry", "When", "your" >> >> ],
    grief |->
      [ family |->
          << << "I'm", "so", "deeply", "sorry", "for", "your", "loss",
                "Losing" >>,
             << "That", "kind", "of", "loss", "changes", "everything",
                "The", "world" >> >>,
        default |->
          << << "I'm", "truly", "sorry", "Loss", "is", "one", "of", "the" >>,
             << "My", "heart", "goes", "out", "to", "you", "There", "are" >> >> ],
    depressed |->
      [ default |->
          << << "I", "hear", "you", "and", "I", "want", "you", "to" >>,
             << "Thank", "you", "for", "being", "honest", "with", "me",
                "about" >>,
             << "I'm", "sorry", "you're", "feeling", "this", "way", "When",
                "everything" >>,
             << "You", "don't", "have", "to", "pretend", "you're", "fine",
                "It's" >> >> ],
    sad |->
      [ relationship |->
          << << "That", "sounds", "really", "painful", "Being", "stuck",
                "in", "memories" >>,
             << "I", "can", "feel", "the", "sadness", "in", "your", "words" >> >>,
        work_school |->
          << << "That", "sounds", "really", "tough", "When", "things",
                "aren't", "going" >> >>,
        default |->
          << << "I", "can", "hear", "how", "much", "pain", "you're", "in" >>,
             << "That", "sounds", "really", "hard", "Thank", "you", "for",
                "trusting" >>,
             << "I'm", "sorry", "you're", "hurting", "Sadness", "has", "a",
                "way" >>,
             << "I", "hear", "you", "It's", "okay", "to", "not", "be" >> >> ],
    anxious |->
      [ work_school |->
          << << "Exam", "anxiety", "is", "so", "real", "and", "you're",
                "not" >>,
             << "I", "understand", "that", "pressure", "When", "everything",
                "feels", "like" >> >>,
        default |->
          << << "I", "can", "feel", "the", "anxiety", "in", "your", "words" >>,
             << "Anxiety", "can", "make", "everything", "feel", "urgent",
                "and", "terrifying" >>,
             << "I", "hear", "you", "When", "anxiety", "takes", "over", "it" >> >> ],
    angry |->
      [ default |->
          << << "I", "can", "feel", "how", "frustrated", "you", "are", "and" >>,
             << "That", "kind", "of", "frustration", "doesn't", "come",
                "from", "nowhere" >>,
             << "I", "hear", "you", "Anger", "is", "your", "mind's", "way" >> >> ],
    tired |->
      [ default |->
          << << "It", "sounds", "like", "you're", "running", "on", "empty",
                "and" >>,
             << "I", "hear", "how", "drained", "you", "are", "When",
                "you've" >> >> ],
    confused |->
      [ default |->
          << << "It's", "okay", "to", "not", "have", "all", "the", "answers" >>,
             << "I", "hear", "you", "When", "nothing", "makes", "sense",
                "and" >> >> ],
    happy |->
      [ default |->
          << << "That", "makes", "me", "so", "happy", "to", "hear", "Hold" >>,
             << "I", "love", "hearing", "that", "Your", "happiness", "is",
                "genuine" >>,
             << "That's", "wonderful", "Remember", "this", "moment", "on",
                "harder", "days" >> >> ],
    neutral |->
      [ default |->
          << << "Hey", "thanks", "for", "reaching", "out", "I'm", "here",
                "and" >>,
             << "I'm", "glad", "you're", "here", "Sometimes", "we", "just",
                "need" >>,
             << "Hey", "there", "How's", "your", "day", "been", "I'm", "all" >> >> ] ]

\* CONTEXTUAL_TIPS (lines 344-398): for each emotion its list of tips, a
\* character outside ASCII written by its code point.
CONTEXTUAL_TIPS ==
  [ heartbreak |->
      << "Let yourself grieve. Unfollowing or muting your ex on social media can really help the healing process.",
         "Write a letter to them saying everything you need to say. Then don't send it. It's for you, not them.",
         "Surround yourself with people who love you. You don't have to talk about the breakup U+2014 just being around warmth helps.",
         "Create a new routine. The empty spaces where they used to be will hurt less when they're filled with something new." >>,
    grief |->
      << "There's no timeline for grief. Anyone who says 'you should be over it by now' doesn't understand. Take your time.",
         "Keep something that reminds you of them close. A photo, a piece of clothing, a song. It's okay to hold on while letting go.",
         "Consider talking to a grief counselor. Having a safe space to process loss is invaluable." >>,
    depressed |->
      << "Try the '5-minute rule' U+2014 commit to just 5 minutes of something: a walk, a shower, making your bed. Often that's enough to break the inertia.",
         "If you haven't eaten or had water in a while, try to do that now. Depression makes us forget the basics, but your body needs fuel.",
         "Consider talking to a professional. Therapy isn't a sign of weakness U+2014 it's one of the bravest things you can do for yourself.",
         "Open a window or step outside for even 2 minutes. Sunlight and fresh air won't fix everything, but they help more than we expect." >>,
    sad |->
      << "Let yourself cry if you need to. Tears are your body's way of releasing pain. You'll feel lighter after.",
         "Put on your favorite comfort show or music. Something familiar and safe. You don't have to be productive right now.",
         "Text someone you trust and just say 'I'm having a hard day.' You'd be surprised how much people want to help.",
         "Wrap yourself in a blanket, make a warm drink, and just breathe. Sometimes the kindest thing is treating yourself like a friend would." >>,
    anxious |->
      << "Try box breathing: inhale 4 seconds, hold 4, exhale 4, hold 4. Repeat 4 times. It activates your calming nervous system.",
         "Put your hand on your chest and feel your heartbeat. Say out loud: 'I am safe. This feeling will pass.' Because it will.",
         "Write down your three biggest worries right now. For each one, ask: 'What's the worst that could actually happen?' Often the reality is less scary than the anxiety." >>,
    angry |->
      << "If you can, go for a walk or do something physical. Anger is energy U+2014 channel it into movement.",
         "Write down exactly what you're angry about. Sometimes seeing it on paper makes it feel more manageable.",
         "Splash cold water on your face. It sounds simple, but it triggers a physiological response that helps calm intense emotions." >>,
    tired |->
      << "Set a timer for 20 minutes and close your eyes. Even if you don't sleep, rest helps.",
         "Say no to one thing today. You're allowed to protect your energy.",
         "Drink a full glass of water right now. Dehydration is sneaky and makes exhaustion way worse." >>,
    confused |->
      << "Take a piece of paper and brain-dump everything on your mind. Don't organize, just write. Clarity often comes from getting it out of your head.",
         "Talk to someone you trust about what you're facing. Sometimes another perspective unlocks what we can't see alone." >>,
    happy |->
      << "Write down three things that made you happy today. On harder days, you can read this list and remember that good days exist.",
         "Share this feeling with someone you love. Joy is contagious, and spreading it makes it last longer." >>,
    neutral |->
      << "Take a moment to check in with yourself. How's your body feeling? Any tension? Take three slow breaths and relax your shoulders.",
         "Try doing one small thing that brings you joy today U+2014 even something tiny like your favorite song or a walk." >>,
    crisis |->
      << "Please reach out to someone right now. Call/text 988 or text HOME to 741741. You deserve help." >> ]

\* The bucket handed to .get() at line 675 for an emotion without an entry.
generic_responses == << << "I", "hear", "you" >> >>

\* Mutant: CONTEXTUAL_RESPONSES[emotion_key]["default"], without .get().
DefaultBucketFound_subscript(emotion_key) ==
  /\ emotion_key \in DOMAIN CONTEXTUAL_RESPONSES
  /\ "default" \in DOMAIN CONTEXTUAL_RESPONSES[emotion_key]

\* CONTEXTUAL_RESPONSES.get(emotion_key, ...)["default"] raises KeyError
\* when the entry of the emotion has no default bucket.
DefaultBucketFound(emotion_key) ==
  emotion_key \in DOMAIN CONTEXTUAL_RESPONSES
    => "default" \in DOMAIN CONTEXTUAL_RESPONSES[emotion_key]

\* Line 675: responses, which the lines after it do not read.
responses(emotion_key) ==
  IF emotion_key \in DOMAIN CONTEXTUAL_RESPONSES
  THEN CONTEXTUAL_RESPONSES[emotion_key]["default"]
  ELSE generic_responses

\* Lines 679-684: response_text.
FallbackResponse(emotion_key) ==
  IF emotion_key = "happy"
  THEN << "That's", "great", "I'm", "happy", "for", "you" >>
  ELSE IF emotion_key = "sad"
  THEN << "I'm", "sorry", "you're", "feeling", "down", "I'm", "here" >>
  ELSE << "I'm", "listening", "Tell", "me", "more" >>

\* Mutant: the context tags of the classifier handed on in the result.
RuleBasedResponse_with_tags(emotion) ==
  [ emotion |-> emotion.emotion,
    confidence |-> emotion.confidence,
    sentiment_score |-> emotion.sentiment_score,
    response |-> FallbackResponse(emotion.emotion),
    coping_tip |-> "Take it one step at a time.",
    is_crisis |-> FALSE,
    context_tags |-> emotion.context_tags ]

\* Lines 669-693, with result = detect_emotion_rule_based(text).
RuleBasedResponse(emotion) ==
  [ emotion |-> emotion.emotion,
    confidence |-> emotion.confidence,
    sentiment_score |-> emotion.sentiment_score,
    response |-> FallbackResponse(emotion.emotion),
    coping_tip |-> "Take it one step at a time.",
    is_crisis |-> FALSE ]

\* Mutant: history[:10], the first ten turns.
GeminiHistory_first_ten(h) ==
  LET n     == Len(h)
      first == IF n > 10 THEN SubSeq(h, 1, 10) ELSE h
  IN  [i \in DOMAIN first |->
         [ role  |-> IF first[i].is_ai_response THEN "model" ELSE "user",
           parts |-> << first[i].content >> ]]

\* for msg in history[-10:]: role and parts of each.
GeminiHistory(h) ==
  LET n    == Len(h)
      last == IF n > 10 THEN SubSeq(h, n - 9, n) ELSE h
  IN  [i \in DOMAIN last |->
         [ role  |-> IF last[i].is_ai_response THEN "model" ELSE "user",
           parts |-> << last[i].content >> ]]

(***************************************************************************)
(* Specification of the classifier: detect_emotion_rule_based applied to   *)
(* every text of Texts.                                                    *)
(***************************************************************************)
vars ==
  << text, emotion_result, extracted, cpc, model, error_log_writable, error_log, pc,
     message, history, gemini_history, gemini_calls, gemini_status, gemini_answer,
     gemini_data, result, raised, path, connections, requests, unique_columns >>

connection_vars == << connections, requests, unique_columns >>

classifier_vars == << text, emotion_result, extracted, cpc >>

call_vars ==
  << model, error_log_writable, error_log, pc, message, history,
     gemini_history, gemini_calls, gemini_status, gemini_answer,
     gemini_data, result, raised, path >>

NoCall ==
  /\ error_log = << >>
  /\ pc = "idle"
  /\ message = << >>
  /\ history = << >>
  /\ gemini_history = << >>
  /\ gemini_calls = 0
  /\ gemini_status = "not_called"
  /\ gemini_answer = "none"
  /\ gemini_data = NoResult
  /\ result = NoResult
  /\ raised = FALSE
  /\ path = "none"

\* A call of send_connection_request that has not begun.
IdleRequest ==
  [ pc |-> "idle", current_user |-> None, target_user_id |-> None,
    existing |-> 0, status |-> 0 ]

\* An empty table and no request.
NoRequests ==
  /\ connections = << >>
  /\ requests = [r \in RequestIds |-> IdleRequest]
  /\ unique_columns = FALSE

InitClassify ==
  /\ text \in Texts
  /\ emotion_result = NoResult
  /\ extracted = NoResult
  /\ cpc = "call"
  /\ model = FALSE
  /\ error_log_writable = TRUE
  /\ NoCall
  /\ NoRequests

Classify ==
  /\ cpc = "call"
  /\ \E tag_list \in ListsOf(PhraseTags(text)) :
       emotion_result' = detect_emotion_rule_based(text, tag_list)
  /\ cpc' = "returned"
  /\ UNCHANGED << text, extracted, call_vars, connection_vars >>

NextClassify == Classify

SpecClassify == InitClassify /\ [][NextClassify]_vars

(***************************************************************************)
(* Specification of the extractors: each of them, and the classifier,      *)
(* applied to every text of LongTexts.                                     *)
(***************************************************************************)
InitExtract ==
  /\ text \in LongTexts
  /\ emotion_result = NoResult
  /\ extracted = NoResult
  /\ cpc = "call"
  /\ model = FALSE
  /\ error_log_writable = TRUE
  /\ NoCall
  /\ NoRequests

\* Lines 481-487 and 494: the calls of the extractors.
Extract ==
  /\ cpc = "call"
  /\ \E tag_list \in ListsOf(PhraseTags(text)) :
       extracted' =
         [ phrase   |-> _detect_phrase_emotion(text, tag_list),
           emoji    |-> _detect_emoji_emotion(text),
           keyword  |-> _detect_keyword_emotion(text),
           negation |-> _has_negation_before_positive(text) ]
  /\ cpc' = "extracted"
  /\ UNCHANGED << text, emotion_result, call_vars, connection_vars >>

NextExtract == Extract \/ Classify

SpecExtract == InitExtract /\ [][NextExtract]_vars

(***************************************************************************)
(* Specification of the orchestrator: one call of generate_response, in    *)
(* the steps between which it waits for the file system or the generator.  *)
(***************************************************************************)
Init ==
  /\ text = << >>
  /\ emotion_result = NoResult
  /\ extracted = NoResult
  /\ cpc = "unused"
  /\ model \in BOOLEAN
  /\ error_log_writable \in BOOLEAN
  /\ NoCall
  /\ NoRequests

\* return: the locals of the call are gone.
Return(value, by) ==
  /\ result' = value
  /\ path' = by
  /\ pc' = "done"
  /\ history' = << >>
  /\ gemini_history' = << >>
  /\ UNCHANGED raised

\* An exception leaves generate_response.
Raise ==
  /\ raised' = TRUE
  /\ path' = "raised"
  /\ pc' = "done"
  /\ history' = << >>
  /\ gemini_history' = << >>
  /\ UNCHANGED result

\* Mutant: the generator tried before the crisis check.
generate_response_gemini_first(t, h) ==
  /\ pc = "idle"
  /\ message' = t
  /\ IF model
     THEN /\ history' = h
          /\ gemini_history' = GeminiHistory(h)
          /\ gemini_status' = "called"
          /\ pc' = "gemini_enter"
          /\ UNCHANGED << result, raised, path >>
     ELSE IF _check_crisis(t)
     THEN /\ \E response \in Range(crisis_responses) :
               Return(_build_crisis_response(t, response), "crisis")
          /\ UNCHANGED gemini_status
     ELSE /\ history' = h
          /\ pc' = "fallback"
          /\ UNCHANGED << gemini_history, gemini_status, result, raised, path >>
  /\ UNCHANGED << connection_vars, classifier_vars, model, error_log_writable, error_log,
                  gemini_calls, gemini_answer, gemini_data >>

\* Lines 645-663: the crisis check, then the choice of the path.
generate_response(t, h) ==
  /\ pc = "idle"
  /\ message' = t
  /\ IF _check_crisis(t)
     THEN /\ \E response \in Range(crisis_responses) :
               Return(_build_crisis_response(t, response), "crisis")
          /\ UNCHANGED gemini_status
     ELSE IF model
     THEN /\ history' = h
          /\ gemini_history' = GeminiHistory(h)
          /\ gemini_status' = "called"
          /\ pc' = "gemini_enter"
          /\ UNCHANGED << result, raised, path >>
     ELSE /\ history' = h
          /\ pc' = "fallback"
          /\ UNCHANGED << gemini_history, gemini_status, result, raised, path >>
  /\ UNCHANGED << connection_vars, classifier_vars, model, error_log_writable, error_log,
                  gemini_calls, gemini_answer, gemini_data >>

\* Mutant: a circuit breaker that reads error_log.txt and skips the
\* generator when the file holds a failure.
generate_response_with_gemini_enter_breaker ==
  /\ pc = "gemini_enter"
  /\ IF ~model
     THEN /\ Raise
          /\ gemini_status' = "propagated"
          /\ UNCHANGED error_log
     ELSE IF \E i \in DOMAIN error_log : error_log[i] = "EXCEPTION"
     THEN /\ pc' = "fallback"
          /\ gemini_status' = "returned_none"
          /\ UNCHANGED << error_log, history, gemini_history, result, raised, path >>
     ELSE IF error_log_writable
     THEN /\ error_log' = Append(error_log, "DEBUG")
          /\ pc' = "gemini_send"
          /\ UNCHANGED << history, gemini_history, gemini_status, result, raised, path >>
     ELSE /\ pc' = "gemini_except"
          /\ gemini_status' = "failed"
          /\ UNCHANGED << error_log, history, gemini_history, result, raised, path >>
  /\ UNCHANGED << connection_vars, classifier_vars, model, error_log_writable, message,
                  gemini_calls, gemini_answer, gemini_data >>

\* Lines 585-590: the model check and the debug line appended to
\* error_log.txt inside the try block.
generate_response_with_gemini_enter ==
  /\ pc = "gemini_enter"
  /\ IF ~model
     THEN /\ Raise
          /\ gemini_status' = "propagated"
          /\ UNCHANGED error_log
     ELSE IF error_log_writable
     THEN /\ error_log' = Append(error_log, "DEBUG")
          /\ pc' = "gemini_send"
          /\ UNCHANGED << history, gemini_history, gemini_status, result, raised, path >>
     ELSE /\ pc' = "gemini_except"
          /\ gemini_status' = "failed"
          /\ UNCHANGED << error_log, history, gemini_history, result, raised, path >>
  /\ UNCHANGED << connection_vars, classifier_vars, model, error_log_writable, message,
                  gemini_calls, gemini_answer, gemini_data >>

\* Lines 593-630 and 663-665: the chat is started with the history, the
\* prompt is sent, the answer is parsed and normalised; a dict is returned
\* through generate_response at once.
generate_response_with_gemini_send ==
  /\ pc = "gemini_send"
  /\ gemini_calls' = gemini_calls + 1
  /\ \/ \E outcome \in GeminiOutcomes :
          /\ gemini_answer' = AnswerKind(outcome)
          /\ LET returned == IF outcome.kind = "exception" THEN NoResult
                             ELSE GeminiReturn(outcome.content)
             IN  IF returned = NoResult
                 THEN /\ pc' = "gemini_except"
                      /\ gemini_status' = "failed"
                      /\ UNCHANGED << history, gemini_history, gemini_data,
                                      result, raised, path >>
                 ELSE /\ Return(returned, "gemini")
                      /\ gemini_status' = "returned_dict"
                      /\ gemini_data' =
                           json_loads(StripFences(outcome.content)).value.fields
     \/ \* line 607 passes no timeout: send_message need not come back
        /\ pc' = "gemini_blocked"
        /\ gemini_answer' = "no_answer"
        /\ UNCHANGED << history, gemini_history, gemini_status, gemini_data,
                        result, raised, path >>
  /\ UNCHANGED << connection_vars, classifier_vars, model, error_log_writable, error_log, message >>

\* Lines 632-638: the handler rewrites error_log.txt and returns None; an
\* error of open() in the handler leaves the function and its caller.
generate_response_with_gemini_except ==
  /\ pc = "gemini_except"
  /\ IF error_log_writable
     THEN /\ error_log' = << "EXCEPTION" >>
          /\ gemini_status' = "returned_none"
          /\ pc' = "fallback"
          /\ UNCHANGED << history, gemini_history, result, raised, path >>
     ELSE /\ Raise
          /\ gemini_status' = "propagated"
          /\ UNCHANGED error_log
  /\ UNCHANGED << connection_vars, classifier_vars, model, error_log_writable, message,
                  gemini_calls, gemini_answer, gemini_data >>

\* Line 669 for every message: the results detect_emotion_rule_based can
\* give, one for each order list(set(tags)) can take.
RuleBasedResults ==
  UNION { { [text |-> t, result |-> detect_emotion_rule_based(t, tag_list)] :
              tag_list \in ListsOf(PhraseTags(t)) } : t \in Messages }

\* Lines 667-693: the rule-based fallback.
generate_response_fallback ==
  /\ pc = "fallback"
  /\ \E classified \in RuleBasedResults :
       /\ classified.text = message
       /\ IF DefaultBucketFound(classified.result.emotion)
          THEN Return(RuleBasedResponse(classified.result), "rule_based")
          ELSE Raise
  /\ UNCHANGED << connection_vars, classifier_vars, model, error_log_writable, error_log, message,
                  gemini_calls, gemini_status, gemini_answer, gemini_data >>

Next ==
  \/ \E t \in Messages, h \in Histories : generate_response(t, h)
  \/ generate_response_with_gemini_enter
  \/ generate_response_with_gemini_send
  \/ generate_response_with_gemini_except
  \/ generate_response_fallback

Spec == Init /\ [][Next]_vars

(***************************************************************************)
(* Concurrent calls.  generate_response is called from request handlers    *)
(* that run side by side; the module globals it reads (model and the       *)
(* tables) are assigned at import only, and the one thing a call writes    *)
(* outside itself is error_log.txt.  The call of the variables above runs  *)
(* among any number of other calls, which act on it through that file:     *)
(* line 589 appends the debug line, line 633 rewrites the file.            *)
(***************************************************************************)
ConcurrentMessages == { t \in Messages : Len(t) <= MaxConcMsgLen }

\* Line 589 of another call.
other_call_appends_debug ==
  /\ error_log_writable
  /\ model
  /\ Len(error_log) < MaxLog
  /\ error_log' = Append(error_log, "DEBUG")
  /\ UNCHANGED << connection_vars, classifier_vars, model, error_log_writable, pc, message,
                  history, gemini_history, gemini_calls, gemini_status,
                  gemini_answer, gemini_data, result, raised, path >>

\* Line 633 of another call.
other_call_rewrites_log ==
  /\ error_log_writable
  /\ model
  /\ error_log # << "EXCEPTION" >>
  /\ error_log' = << "EXCEPTION" >>
  /\ UNCHANGED << connection_vars, classifier_vars, model, error_log_writable, pc, message,
                  history, gemini_history, gemini_calls, gemini_status,
                  gemini_answer, gemini_data, result, raised, path >>

NextConcurrent ==
  \/ \E t \in ConcurrentMessages, h \in Histories : generate_response(t, h)
  \/ generate_response_with_gemini_enter
  \/ generate_response_with_gemini_send
  \/ generate_response_with_gemini_except
  \/ generate_response_fallback
  \/ other_call_appends_debug
  \/ other_call_rewrites_log

SpecConcurrent == Init /\ [][NextConcurrent]_vars

\* The interpreter runs a call that can take a step: every step of Next
\* that stays enabled is taken.
SpecLive == Spec /\ WF_vars(Next)

(***************************************************************************)
(* Specification of the connection requests: calls of                      *)
(* send_connection_request, each with a database session of its own, in    *)
(* the steps between which the handler awaits the database.  A select      *)
(* reads the committed rows; no call of the emotion service runs.          *)
(***************************************************************************)
\* The unordered pair of users of a row.
PairOf(row) == { row.user_id, row.connected_user_id }

\* Lines 56-63: the rows between the two users, in either direction.
ExistingRows(current_user, target_user_id) ==
  { i \in DOMAIN connections :
      \/ /\ connections[i].user_id = current_user
         /\ connections[i].connected_user_id = target_user_id
      \/ /\ connections[i].user_id = target_user_id
         /\ connections[i].connected_user_id = current_user }

\* The commit of a row that the declaration of the table forbids, when it
\* declares the two columns unique together.
IntegrityError(conn) ==
  /\ unique_columns
  /\ \E i \in DOMAIN connections : connections[i] = conn

\* The call ends with an HTTP status.
Respond(r, status) ==
  requests' = [requests EXCEPT ![r].pc = "done", ![r].status = status]

InitConnect ==
  /\ text = << >>
  /\ emotion_result = NoResult
  /\ extracted = NoResult
  /\ cpc = "unused"
  /\ model = FALSE
  /\ error_log_writable = TRUE
  /\ NoCall
  /\ connections = << >>
  /\ requests = [r \in RequestIds |-> IdleRequest]
  /\ unique_columns \in BOOLEAN

\* Lines 40-46: the call begins; a request to oneself is rejected.
send_connection_request(r) ==
  /\ requests[r].pc = "idle"
  /\ \E current_user \in Users, target_user_id \in UserIds :
       IF target_user_id = current_user
       THEN requests' = [requests EXCEPT ![r] =
              [ pc |-> "done", current_user |-> current_user,
                target_user_id |-> target_user_id, existing |-> 0,
                status |-> 400 ]]
       ELSE requests' = [requests EXCEPT ![r] =
              [ pc |-> "select_target", current_user |-> current_user,
                target_user_id |-> target_user_id, existing |-> 0,
                status |-> 0 ]]
  /\ UNCHANGED << connections, unique_columns, classifier_vars, call_vars >>

\* Lines 49-52: the target user is looked up.
send_connection_request_select_target(r) ==
  /\ requests[r].pc = "select_target"
  /\ IF requests[r].target_user_id \notin Users
     THEN Respond(r, 404)
     ELSE requests' = [requests EXCEPT ![r].pc = "select_existing"]
  /\ UNCHANGED << connections, unique_columns, classifier_vars, call_vars >>

\* Lines 55-65: the rows between the two users are selected;
\* scalar_one_or_none raises MultipleResultsFound on more than one row,
\* which leaves the handler as status 500.
send_connection_request_select_existing(r) ==
  /\ requests[r].pc = "select_existing"
  /\ LET existing ==
           Cardinality(ExistingRows(requests[r].current_user,
                                    requests[r].target_user_id))
     IN  IF existing > 1
         THEN requests' = [requests EXCEPT ![r].pc = "done",
                                           ![r].existing = existing,
                                           ![r].status = 500]
         ELSE IF existing = 1
         THEN requests' = [requests EXCEPT ![r].pc = "done",
                                           ![r].existing = existing,
                                           ![r].status = 400]
         ELSE requests' = [requests EXCEPT ![r].pc = "commit"]
  /\ UNCHANGED << connections, unique_columns, classifier_vars, call_vars >>

\* Lines 67-75: the row is added and committed.
send_connection_request_commit(r) ==
  /\ requests[r].pc = "commit"
  /\ LET conn == [ user_id |-> requests[r].current_user,
                   connected_user_id |-> requests[r].target_user_id ]
     IN  IF IntegrityError(conn)
         THEN /\ Respond(r, 500)
              /\ UNCHANGED connections
         ELSE /\ connections' = Append(connections, conn)
              /\ Respond(r, 200)
  /\ UNCHANGED << unique_columns, classifier_vars, call_vars >>

NextConnect ==
  \E r \in RequestIds :
    \/ send_connection_request(r)
    \/ send_connection_request_select_target(r)
    \/ send_connection_request_select_existing(r)
    \/ send_connection_request_commit(r)

SpecConnect == InitConnect /\ [][NextConnect]_vars

(***************************************************************************)
(* Properties.                                                             *)
(***************************************************************************)
Returned == pc = "done" /\ ~raised

\* The helpline directive of a response text: the number 988 and
\* "text HOME to 741741".
HasHelpline(response) ==
  /\ \E i \in DOMAIN response : response[i] = "988"
  /\ \E i \in 1..(Len(response) - 3) :
       /\ response[i] \in { "text", "Text" }
       /\ response[i + 1] = "HOME"
       /\ response[i + 2] = "to"
       /\ response[i + 3] = "741741"

\* C1: on every text the crisis extractor matches, detect_emotion_rule_based
\* returns emotion "crisis", confidence 1.0, sentiment -1.0, is_crisis true
\* and the tags ["crisis", "safety"], whatever the other extractors find.
Thm_C1_CrisisAbsorption ==
  (cpc = "returned" /\ _check_crisis(text)) =>
    /\ emotion_result.emotion = "crisis"
    /\ emotion_result.confidence = 100
    /\ emotion_result.sentiment_score = -100
    /\ emotion_result.is_crisis = TRUE
    /\ emotion_result.context_tags = << "crisis", "safety" >>

\* A crisis text that also carries a happy emoji and a happy keyword has
\* been classified.
Wit_C1_CrisisWithPositiveSignals ==
  /\ cpc = "returned"
  /\ _check_crisis(text)
  /\ _detect_emoji_emotion(text) = "happy"
  /\ _detect_keyword_emotion(text) = "happy"

\* C2: once generate_response has started on a message the crisis extractor
\* matches, the call is over with the crisis response and the generator was
\* neither entered nor sent anything, with or without a configured model.
Thm_C2_CrisisShortCircuit ==
  (pc # "idle" /\ _check_crisis(message)) =>
    /\ pc = "done"
    /\ ~raised
    /\ path = "crisis"
    /\ gemini_status = "not_called"
    /\ gemini_calls = 0
    /\ error_log = << >>
    /\ \E response \in Range(crisis_responses) :
         result = _build_crisis_response(message, response)

\* A crisis message has been answered while a model was configured.
Wit_C2_CrisisWithModel ==
  /\ pc = "done"
  /\ model
  /\ _check_crisis(message)
  /\ path = "crisis"

\* C3 as stated: in every result, is_crisis is true exactly when the local
\* crisis extractor matched the message.
Orig_C3_CrisisFlagIffLocalMatch ==
  Returned => (result.is_crisis <=> _check_crisis(message))

\* C3 amended: the flag is true whenever the local extractor matched; on the
\* crisis path and on the rule-based path it is true exactly when the
\* extractor matched; on the generator path it is true exactly when the
\* emotion the generator gave is "crisis".
Thm_C3_CrisisFlag ==
  Returned =>
    /\ _check_crisis(message) => result.is_crisis
    /\ path \in { "crisis", "rule_based" } =>
         (result.is_crisis <=> _check_crisis(message))
    /\ path = "gemini" =>
         (result.is_crisis <=>
            ("emotion" \in DOMAIN gemini_data /\ gemini_data["emotion"] = "crisis"))

\* The generator has set the flag on a message the local extractor does not
\* match.
Wit_C3_GeneratorSetsFlag ==
  /\ Returned
  /\ path = "gemini"
  /\ result.is_crisis
  /\ ~_check_crisis(message)

\* C4: every crisis result generate_response returns has a response text
\* with the helpline directive.
Claim_C4_CrisisResultHasHelpline ==
  (Returned /\ (result.is_crisis \/ result.emotion = "crisis")) =>
    HasHelpline(result.response)

\* C5: every crisis response of _build_crisis_response has 988 and
\* "text HOME to 741741"; the response returned on the crisis path is one of
\* them and its coping tip is the fixed crisis tip.
Thm_C5_CrisisResponseSet ==
  /\ \A i \in DOMAIN crisis_responses : HasHelpline(crisis_responses[i])
  /\ (Returned /\ path = "crisis") =>
       /\ result.response \in Range(crisis_responses)
       /\ HasHelpline(result.response)
       /\ result.coping_tip = crisis_coping_tip

\* The second crisis response has been returned.
Wit_C5_SecondResponseChosen ==
  /\ Returned
  /\ path = "crisis"
  /\ result.response = crisis_responses[2]

\* C6: for a non-crisis message, when no model is configured or the call of
\* the generator failed, generate_response raises nothing and returns the
\* rule-based result, not a crisis and with an emotion of the closed set.
Claim_C6_FallbackOnFailure ==
  (/\ pc = "done"
   /\ ~_check_crisis(message)
   /\ \/ ~model
      \/ gemini_status \in { "failed", "returned_none", "propagated" }
      \/ gemini_answer \in { "exception", "not_json", "not_object", "no_response" }) =>
    /\ ~raised
    /\ path = "rule_based"
    /\ \E tag_list \in ListsOf(PhraseTags(message)) :
         result = RuleBasedResponse(detect_emotion_rule_based(message, tag_list))
    /\ result.is_crisis = FALSE
    /\ result.emotion \in Range(valid_emotions)

\* C7: an answer of the generator that is a JSON object with a response is
\* returned through the generator path, without fallback or error, whatever
\* its emotion is; the emotion of the result is in the closed set: the
\* answer's own emotion when that is in the set, "neutral" when it is absent
\* or not in the set.
Thm_C7_EmotionValidated ==
  /\ gemini_answer = "object" =>
       /\ Returned
       /\ path = "gemini"
       /\ gemini_status = "returned_dict"
  /\ (Returned /\ path = "gemini") =>
       /\ gemini_answer = "object"
       /\ result.emotion \in Range(valid_emotions)
       /\ result.emotion =
            IF "emotion" \in DOMAIN gemini_data
                 /\ gemini_data["emotion"] \in Range(valid_emotions)
            THEN gemini_data["emotion"] ELSE "neutral"
       /\ result.response = gemini_data["response"]

\* An answer with an emotion outside the set came back as "neutral" through
\* the generator path.
Wit_C7_InvalidEmotionNormalised ==
  /\ Returned
  /\ path = "gemini"
  /\ "emotion" \in DOMAIN gemini_data
  /\ gemini_data["emotion"] = "bored"
  /\ result.emotion = "neutral"

\* C8: in every result of generate_response the confidence is in [0, 1] and
\* the sentiment score in [-1, 1].
Claim_C8_OutputRanges ==
  Returned =>
    /\ result.confidence \in 0..100
    /\ result.sentiment_score \in -100..100

\* C9: a non-crisis text with a negation word before a positive word is
\* never classified "happy", whatever its phrases, emoji and keywords.
Claim_C9_NegationNeverHappy ==
  (/\ cpc = "returned"
   /\ ~_check_crisis(text)
   /\ _has_negation_before_positive(text)) =>
    emotion_result.emotion # "happy"

\* C10: on a non-crisis text with a phrase candidate, the result has the
\* phrase emotion, confidence 0.9 and the matched phrase groups as tags, each
\* once.
Thm_C10_PhrasePriority ==
  (/\ cpc = "returned"
   /\ ~_check_crisis(text)
   /\ PhraseTags(text) # {}) =>
    /\ emotion_result.emotion = MaxKey(PhraseMatches(text, Len(EMOTION_PHRASES)))
    /\ emotion_result.confidence = 90
    /\ Range(emotion_result.context_tags) = PhraseTags(text)
    /\ Len(emotion_result.context_tags) = Cardinality(PhraseTags(text))

\* A text with a phrase candidate, a different keyword candidate and a
\* negation has been classified.
Wit_C10_PhraseAgainstKeyword ==
  /\ cpc = "returned"
  /\ ~_check_crisis(text)
  /\ PhraseTags(text) # {}
  /\ _has_negation_before_positive(text)
  /\ _detect_keyword_emotion(text) \notin
       { None, MaxKey(PhraseMatches(text, Len(EMOTION_PHRASES))) }

\* The candidate list the response of an emotion result is drawn from: the
\* sub-buckets of the emotion that context_tags names, else the default
\* bucket of the emotion, else the generic bucket.
CandidateResponses(emotion) ==
  IF emotion.emotion \notin DOMAIN CONTEXTUAL_RESPONSES THEN Range(generic_responses)
  ELSE LET buckets == CONTEXTUAL_RESPONSES[emotion.emotion]
           tagged  == (DOMAIN buckets \ { "default" }) \cap Range(emotion.context_tags)
       IN  IF tagged # {}
           THEN UNION { Range(buckets[k]) : k \in tagged }
           ELSE Range(buckets["default"])

\* C11: the response of a non-crisis message answered by the rule-based path
\* is an element of the candidate list of the classified emotion (tagged
\* sub-bucket, else default bucket, else generic bucket).
Claim_C11_ResponseFromCorpus ==
  (Returned /\ path = "rule_based") =>
    \E tag_list \in ListsOf(PhraseTags(message)) :
      result.response \in
        CandidateResponses(detect_emotion_rule_based(message, tag_list))

\* C12: the coping tip of a non-crisis message answered by the rule-based
\* path is an element of the tip list of the classified emotion whenever
\* CONTEXTUAL_TIPS has a list for that emotion.
Claim_C12_TipFromCorpus ==
  (/\ Returned
   /\ path = "rule_based"
   /\ result.emotion \in DOMAIN CONTEXTUAL_TIPS) =>
    result.coping_tip \in Range(CONTEXTUAL_TIPS[result.emotion])

\* C13: every emotion of CONTEXTUAL_RESPONSES has a non-empty default bucket
\* of non-empty texts; for every emotion of the closed set, with or without
\* an entry, the lookup of the rule-based path finds a non-empty list; the
\* rule-based path never raises, and its result has a non-empty response
\* and a non-empty coping tip.
Thm_C13_NoUnmappedEmotion ==
  /\ \A e \in DOMAIN CONTEXTUAL_RESPONSES :
       /\ "default" \in DOMAIN CONTEXTUAL_RESPONSES[e]
       /\ CONTEXTUAL_RESPONSES[e]["default"] # << >>
       /\ \A i \in DOMAIN CONTEXTUAL_RESPONSES[e]["default"] :
            CONTEXTUAL_RESPONSES[e]["default"][i] # << >>
  /\ \A e \in Range(valid_emotions) :
       DefaultBucketFound(e) /\ responses(e) # << >>
  /\ (pc = "done" /\ raised) => gemini_status = "propagated"
  /\ (pc = "done" /\ gemini_status \in { "not_called", "returned_none" }
        /\ ~_check_crisis(message)) =>
       /\ Returned
       /\ path = "rule_based"
       /\ result.response # << >>
       /\ result.coping_tip # ""

\* A message classified "grateful", which has no entry in
\* CONTEXTUAL_RESPONSES, has been answered by the rule-based path.
Wit_C13_GratefulAnswered ==
  /\ Returned
  /\ path = "rule_based"
  /\ result.emotion = "grateful"
  /\ "grateful" \notin DOMAIN CONTEXTUAL_RESPONSES

\* No phrase, emoji or keyword candidate on a non-crisis text.
NothingMatched(t) ==
  /\ ~_check_crisis(t)
  /\ PhraseTags(t) = {}
  /\ _detect_emoji_emotion(t) = None
  /\ _detect_keyword_emotion(t) = None

\* C14: on a non-crisis text with no phrase, emoji or keyword candidate,
\* detect_emotion_rule_based returns "sad" with confidence 0.6 when a
\* negation stands before a positive word, else "neutral" with confidence
\* 0.3 and sentiment 0.0; the context tags are empty, is_crisis is false;
\* the empty text is one of the "neutral" cases.
Thm_C14_NothingMatched ==
  (cpc = "returned" /\ NothingMatched(text)) =>
    /\ emotion_result.context_tags = << >>
    /\ emotion_result.is_crisis = FALSE
    /\ IF _has_negation_before_positive(text)
       THEN /\ emotion_result.emotion = "sad"
            /\ emotion_result.confidence = 60
       ELSE /\ emotion_result.emotion = "neutral"
            /\ emotion_result.confidence = 30
            /\ emotion_result.sentiment_score = 0
    /\ text = << >> => emotion_result.emotion = "neutral"

\* A text with a negated positive word and no candidate of any extractor
\* has been classified.
Wit_C14_NegationOnly ==
  /\ cpc = "returned"
  /\ NothingMatched(text)
  /\ _has_negation_before_positive(text)
  /\ emotion_result.emotion = "sad"

\* C15: during one call of generate_response the generator is sent the
\* prompt at most once; when the call is over it was sent exactly once if a
\* model is configured and the message is no crisis, and not at all
\* otherwise.
Claim_C15_AtMostOneAttempt ==
  /\ gemini_calls <= 1
  /\ pc = "done" =>
       gemini_calls = IF model /\ ~_check_crisis(message) THEN 1 ELSE 0

\* C16: every call of generate_response eventually leaves it, also when the
\* generator never answers.
Claim_C16_EventuallyReturns == <>(pc = "done")

\* C17: the history handed to the generator is the last min(10, n) turns of
\* the n turns given to generate_response, in their order, each with role
\* "model" for a turn of the AI and "user" otherwise, and with its content.
Thm_C17_BoundedHistory ==
  pc \in { "gemini_enter", "gemini_send", "gemini_blocked", "gemini_except" } =>
    LET n == Len(history)
        k == IF n < 10 THEN n ELSE 10
    IN  /\ Len(gemini_history) = k
        /\ \A i \in 1..k :
             /\ gemini_history[i].parts = << history[n - k + i].content >>
             /\ gemini_history[i].role =
                  IF history[n - k + i].is_ai_response THEN "model" ELSE "user"

\* The prompt is about to be sent with a history of more than ten turns.
Wit_C17_LongHistory ==
  /\ pc = "gemini_send"
  /\ Len(history) > 10
  /\ Len(gemini_history) = 10
  /\ gemini_history[1].parts = << history[Len(history) - 9].content >>

\* C18: in a result of the generator path, confidence, sentiment_score and
\* coping_tip are the answer's own when the answer has them, and 0.5, 0.0
\* and "Take a deep breath." when it lacks them.
Thm_C18_GeneratorDefaults ==
  (Returned /\ path = "gemini") =>
    /\ result.confidence =
         IF "confidence" \in DOMAIN gemini_data
         THEN gemini_data["confidence"] ELSE 50
    /\ result.sentiment_score =
         IF "sentiment_score" \in DOMAIN gemini_data
         THEN gemini_data["sentiment_score"] ELSE 0
    /\ result.coping_tip =
         IF "coping_tip" \in DOMAIN gemini_data
         THEN gemini_data["coping_tip"] ELSE "Take a deep breath."

\* An answer without confidence and coping tip, with a sentiment score, has
\* been returned.
Wit_C18_SomeFieldsMissing ==
  /\ Returned
  /\ path = "gemini"
  /\ DOMAIN gemini_data = { "emotion", "sentiment_score", "response" }
  /\ result.confidence = 50
  /\ result.sentiment_score = gemini_data["sentiment_score"]
  /\ result.coping_tip = "Take a deep breath."

\* The fields of a result of generate_response.
ResultFields ==
  { "emotion", "confidence", "sentiment_score", "response", "coping_tip",
    "is_crisis" }

\* C19: every result generate_response returns, on the crisis path, the
\* generator path and the rule-based path, is a record with exactly the six
\* fields emotion, confidence, sentiment_score, response, coping_tip and
\* is_crisis.
Thm_C19_UnifiedShape ==
  Returned =>
    /\ path \in { "crisis", "gemini", "rule_based" }
    /\ DOMAIN result = ResultFields

\* The rule-based path has answered a message whose classification has
\* context tags, which are not part of the result.
Wit_C19_RuleBasedShape ==
  /\ Returned
  /\ path = "rule_based"
  /\ PhraseTags(message) # {}
  /\ DOMAIN result = ResultFields

\* C20: the result of detect_emotion_rule_based on a text has the same
\* emotion, confidence, sentiment score, crisis flag and set of context tags
\* as every result another call on the same text can give.
Thm_C20_ClassificationDeterministic ==
  cpc = "returned" =>
    \A tag_list \in ListsOf(PhraseTags(text)) :
      LET other == detect_emotion_rule_based(text, tag_list)
      IN  /\ other.emotion = emotion_result.emotion
          /\ other.confidence = emotion_result.confidence
          /\ other.sentiment_score = emotion_result.sentiment_score
          /\ other.is_crisis = emotion_result.is_crisis
          /\ Range(other.context_tags) = Range(emotion_result.context_tags)

\* A text with two phrase groups has been classified, and another call can
\* give its tags in another order.
Wit_C20_TwoTagOrders ==
  /\ cpc = "returned"
  /\ Cardinality(PhraseTags(text)) >= 2
  /\ \E tag_list \in ListsOf(PhraseTags(text)) :
       detect_emotion_rule_based(text, tag_list).context_tags
         # emotion_result.context_tags

\* The results the rule-based fallback can give for a message.
FallbackResults(t) ==
  { RuleBasedResponse(classified.result) :
      classified \in { c \in RuleBasedResults : c.text = t } }

\* C21: whatever other calls do meanwhile, a call that is over has the
\* result that its own message, the configuration and the answer of its own
\* generator call give: the crisis response for a crisis message; without a
\* model the rule-based result; with a model the normalised answer when the
\* answer is an object with a response, and the rule-based result when it
\* is not; the generator is asked once when a model is configured for a
\* non-crisis message and the log can be written, and not at all
\* otherwise; with a model and a log that cannot be written the call raises.
Thm_C21_IndependentCalls ==
  pc = "done" =>
    IF _check_crisis(message)
    THEN /\ ~raised
         /\ gemini_calls = 0
         /\ \E response \in Range(crisis_responses) :
              result = _build_crisis_response(message, response)
    ELSE IF ~model
    THEN /\ ~raised
         /\ gemini_calls = 0
         /\ result \in FallbackResults(message)
    ELSE IF ~error_log_writable
    THEN /\ raised
         /\ gemini_calls = 0
    ELSE /\ ~raised
         /\ gemini_calls = 1
         /\ IF gemini_answer = "object"
            THEN result =
                   GeminiReturn(<< Json([type |-> "object",
                                        fields |-> gemini_data]) >>)
            ELSE result \in FallbackResults(message)

\* A call has returned its generator's answer while the log holds the
\* failure of another call.
Wit_C21_OtherCallFailedMeanwhile ==
  /\ pc = "done"
  /\ path = "gemini"
  /\ gemini_status = "returned_dict"
  /\ error_log = << "EXCEPTION" >>

\* C22: on a non-crisis text without a phrase candidate on which the emoji
\* and the keyword extractor both give a candidate, the classifier returns
\* confidence 0.8 and: under a negation before a positive word the emoji
\* candidate unless it is "happy", then the keyword candidate; without such
\* a negation the keyword candidate.
Thm_C22_EmojiAndKeyword ==
  (/\ cpc = "returned"
   /\ ~_check_crisis(text)
   /\ PhraseTags(text) = {}
   /\ _detect_emoji_emotion(text) # None
   /\ _detect_keyword_emotion(text) # None) =>
    /\ emotion_result.confidence = 80
    /\ emotion_result.emotion =
         IF _has_negation_before_positive(text)
         THEN IF _detect_emoji_emotion(text) # "happy"
              THEN _detect_emoji_emotion(text)
              ELSE _detect_keyword_emotion(text)
         ELSE _detect_keyword_emotion(text)

\* A text with a negated positive word and an angry emoji, whose keyword
\* candidate is "sad", has been classified "angry".
Wit_C22_EmojiUnderNegation ==
  /\ cpc = "returned"
  /\ ~_check_crisis(text)
  /\ PhraseTags(text) = {}
  /\ _has_negation_before_positive(text)
  /\ _detect_emoji_emotion(text) = "angry"
  /\ _detect_keyword_emotion(text) = "sad"
  /\ emotion_result.emotion = "angry"

\* The score of the n-th emotion of the keyword table after the negation
\* adjustment: "happy" discarded, 2 added to "sad".
AdjustedScore(t, n) ==
  LET emotion == KEYWORD_EMOTIONS[n].emotion
  IN  IF _has_negation_before_positive(t)
      THEN IF emotion = "happy" THEN 0
           ELSE KeywordCount(t, n) + (IF emotion = "sad" THEN 2 ELSE 0)
      ELSE KeywordCount(t, n)

KeywordMatched(t) == \E n \in DOMAIN KEYWORD_EMOTIONS : KeywordCount(t, n) > 0

\* C23: the keyword extractor returns, of the emotions that share the
\* highest score, the one that comes first in the keyword table, also when
\* the negation adjustment has added 2 to "sad".
Claim_C23_KeywordTieBreak ==
  (/\ extracted # NoResult
   /\ extracted.keyword # None) =>
    \E n \in DOMAIN KEYWORD_EMOTIONS :
      /\ extracted.keyword = KEYWORD_EMOTIONS[n].emotion
      /\ \A m \in DOMAIN KEYWORD_EMOTIONS :
            AdjustedScore(text, m) <= AdjustedScore(text, n)
      /\ \A m \in 1..(n - 1) :
            AdjustedScore(text, m) < AdjustedScore(text, n)

\* C24: when a negation stands before a positive word and a keyword
\* matched, the keyword extractor returns a candidate, the candidate is not
\* "happy", and it has the highest score once "happy" is discarded and 2 is
\* added to "sad".
Thm_C24_NegationAdjustment ==
  (/\ extracted # NoResult
   /\ extracted.negation
   /\ KeywordMatched(text)) =>
    /\ extracted.keyword # None
    /\ extracted.keyword # "happy"
    /\ \E n \in DOMAIN KEYWORD_EMOTIONS :
         /\ extracted.keyword = KEYWORD_EMOTIONS[n].emotion
         /\ \A m \in DOMAIN KEYWORD_EMOTIONS :
               AdjustedScore(text, m) <= AdjustedScore(text, n)

\* The only keyword of a text with a negated positive word is a "happy"
\* keyword, and the extractor has answered "sad".
Wit_C24_HappyDiscarded ==
  /\ extracted # NoResult
  /\ extracted.negation
  /\ \A n \in DOMAIN KEYWORD_EMOTIONS :
       KeywordCount(text, n) > 0 <=> KEYWORD_EMOTIONS[n].emotion = "happy"
  /\ extracted.keyword = "sad"

\* C25: the phrase extractor returns the emotion of the phrase group with
\* the most matching patterns, of several such groups the first in registry
\* order, and as tags the groups with a matching pattern, each once; with no
\* matching pattern it returns no candidate and no tags.
Thm_C25_PhraseExtractor ==
  extracted # NoResult =>
    LET matched == { g \in DOMAIN EMOTION_PHRASES : GroupMatches(text, g) > 0 }
    IN  IF matched = {}
        THEN extracted.phrase = [emotion |-> None, tags |-> << >>]
        ELSE /\ \E g \in matched :
                  /\ extracted.phrase.emotion =
                       PHRASE_TO_EMOTION[EMOTION_PHRASES[g].group]
                  /\ \A h \in matched :
                        GroupMatches(text, h) <= GroupMatches(text, g)
                  /\ \A h \in 1..(g - 1) :
                        GroupMatches(text, h) < GroupMatches(text, g)
             /\ Range(extracted.phrase.tags) =
                  { EMOTION_PHRASES[g].group : g \in matched }
             /\ Len(extracted.phrase.tags) = Cardinality(matched)

\* One pattern of the depression group and one of the positive group match,
\* and the extractor has answered "depressed" with both groups as tags.
Wit_C25_TieToFirstGroup ==
  /\ extracted # NoResult
  /\ \E d, p \in DOMAIN EMOTION_PHRASES :
       /\ EMOTION_PHRASES[d].group = "depression"
       /\ EMOTION_PHRASES[p].group = "positive"
       /\ GroupMatches(text, d) = 1
       /\ GroupMatches(text, p) = 1
  /\ extracted.phrase.emotion = "depressed"
  /\ Range(extracted.phrase.tags) = {"depression", "positive"}

\* The sentiment of each emotion as the specification lists it.
TableSentiment ==
  [ happy |-> 80, grateful |-> 90, sad |-> -70, heartbreak |-> -85,
    grief |-> -90, depressed |-> -85, anxious |-> -50, angry |-> -60,
    confused |-> -20, tired |-> -30, neutral |-> 0, crisis |-> -100 ]

\* C26: in every result of the classifier the sentiment score is the table
\* value of the returned emotion, so it is a function of the emotion.
Thm_C26_SentimentIsLookup ==
  cpc = "returned" =>
    /\ emotion_result.emotion \in DOMAIN TableSentiment
    /\ emotion_result.sentiment_score = TableSentiment[emotion_result.emotion]

\* A non-crisis text has been classified "sad" with sentiment -0.7.
Wit_C26_SadSentiment ==
  /\ cpc = "returned"
  /\ ~_check_crisis(text)
  /\ emotion_result.emotion = "sad"
  /\ emotion_result.sentiment_score = -70

\* C27: in every result generate_response returns, on each of its three
\* paths, the crisis flag is set exactly when the emotion is "crisis"; the
\* rule-based path never returns the emotion "crisis".
Thm_C27_FlagIffCrisisEmotion ==
  Returned =>
    /\ path \in { "crisis", "gemini", "rule_based" }
    /\ result.is_crisis <=> result.emotion = "crisis"
    /\ path = "crisis" => result.emotion = "crisis"
    /\ path = "rule_based" => result.emotion # "crisis"

\* The generator has answered "crisis" for a message the local extractor
\* does not match, and the result carries that emotion with the flag set.
Wit_C27_GeneratorCrisis ==
  /\ Returned
  /\ path = "gemini"
  /\ ~_check_crisis(message)
  /\ result.emotion = "crisis"
  /\ result.is_crisis

\* C28: whatever the interleaving of the connection requests, the table
\* has at most one row for each unordered pair of users, and a request that
\* finds a row between the two users, in either direction, is answered 400
\* and adds no row.
Claim_C28_ConnectionUniqueness ==
  /\ \A i, j \in DOMAIN connections :
       PairOf(connections[i]) = PairOf(connections[j]) => i = j
  /\ \A r \in RequestIds :
       (requests[r].pc = "done" /\ requests[r].existing > 0) =>
         requests[r].status = 400
  /\ Len(connections) =
       Cardinality({ r \in RequestIds : requests[r].status = 200 })

====
